---- MODULE Spec2Model ----
(***************************************************************************)
(* Model of postman2jmx.py: the conversion of a Postman collection (and an *)
(* optional Postman environment) into a JMeter test plan.                  *)
(*                                                                         *)
(* Representation                                                          *)
(*   JSON object  : a record whose DOMAIN is the set of keys present       *)
(*   JSON array   : a sequence                                             *)
(*   JSON string  : a string, where the code uses the field as a string    *)
(*   fields the code inspects by type or coerces (url, path, port, value,  *)
(*   enabled)     : a tagged value [t |-> "str"|"num"|"bool"|"null"|       *)
(*                  "list"|"dict", v |-> ...]                              *)
(*   ET.Element   : [tag, attrib, text, children]; text is <<>> for None   *)
(*                  and <<s>> for the string s                             *)
(***************************************************************************)
EXTENDS Integers, Sequences, FiniteSets, TLC

(***************************************************************************)
(* Python helpers                                                          *)
(***************************************************************************)

\* dict.get(key, default)
Get(d, key, default) == IF key \in DOMAIN d THEN d[key] ELSE default

\* Truth value of a tagged JSON value, as Python's `if v:` sees it.
Truthy(j) ==
    CASE j.t = "bool" -> j.v
      [] j.t = "num"  -> j.v # 0
      [] j.t = "str"  -> j.v # ""
      [] j.t = "list" -> j.v # <<>>
      [] j.t = "dict" -> DOMAIN j.v # {}
      [] OTHER        -> FALSE

\* str(v) of a tagged JSON value.
PyStr(j) ==
    CASE j.t = "str"  -> j.v
      [] j.t = "num"  -> ToString(j.v)
      [] j.t = "bool" -> IF j.v THEN "True" ELSE "False"
      [] OTHER        -> "None"

\* sep.join(parts)
RECURSIVE Join(_, _)
Join(sep, parts) ==
    IF parts = <<>> THEN ""
    ELSE IF Len(parts) = 1 THEN parts[1]
    ELSE parts[1] \o sep \o Join(sep, Tail(parts))

\* s[i-1:j], 1-based and inclusive: out-of-range bounds are clipped.
Slice(s, i, j) ==
    IF i > j \/ i > Len(s) THEN ""
    ELSE SubSeq(s, i, IF j < Len(s) THEN j ELSE Len(s))

\* Index of the first occurrence of the character c in s at or after
\* position i; Len(s) + 1 when there is none.
RECURSIVE Find(_, _, _)
Find(s, c, i) ==
    IF i > Len(s) THEN Len(s) + 1
    ELSE IF Slice(s, i, i) = c THEN i
    ELSE Find(s, c, i + 1)

Min(a, b) == IF a < b THEN a ELSE b

(***************************************************************************)
(* xml.etree.ElementTree                                                   *)
(***************************************************************************)

NoAttrib == <<>>

Element(tag, attrib) ==
    [tag |-> tag, attrib |-> attrib, text |-> <<>>, children |-> <<>>]

\* ET.SubElement(parent, ...): the new element becomes the last child.
SubElement(parent, child) ==
    [parent EXCEPT !.children = Append(@, child)]

\* ET.SubElement(parent, tag, name=...).text = text
Prop(tag, name, text) ==
    [tag |-> tag, attrib |-> [name |-> name], text |-> <<text>>,
     children |-> <<>>]

\* ET.SubElement(parent, tag, name=...) with no text assigned
BareProp(tag, name) == Element(tag, [name |-> name])

HashTree == Element("hashTree", NoAttrib)

IsTag(e, tag) == e.tag = tag

HasAttr(e, a, v) == a \in DOMAIN e.attrib /\ e.attrib[a] = v

\* Indices of the children of e selected by the predicate P.
Select(e, P(_)) == {i \in 1..Len(e.children) : P(e.children[i])}

SetMin(S) == CHOOSE m \in S : \A n \in S : m <= n

(***************************************************************************)
(* urllib.parse, for URLs without user info, IPv6 literals, fragments,     *)
(* percent escapes, "+" or upper-case letters                              *)
(***************************************************************************)

SchemeChars ==
    {"a", "b", "c", "d", "e", "f", "g", "h", "i", "j", "k", "l", "m", "n",
     "o", "p", "q", "r", "s", "t", "u", "v", "w", "x", "y", "z",
     "0", "1", "2", "3", "4", "5", "6", "7", "8", "9", "+", "-", "."}

Letters == SchemeChars \ {"0", "1", "2", "3", "4", "5", "6", "7", "8", "9",
                          "+", "-", "."}

From(s, i) == Slice(s, i, Len(s))

\* int(s) for a string of decimal digits
RECURSIVE ParseInt(_)
ParseInt(s) ==
    IF s = "" THEN 0
    ELSE 10 * ParseInt(Slice(s, 1, Len(s) - 1))
         + (Find("0123456789", Slice(s, Len(s), Len(s)), 1) - 1)

\* s.split(c)
RECURSIVE Split(_, _)
Split(s, c) ==
    LET i == Find(s, c, 1)
    IN  IF i > Len(s) THEN <<s>>
        ELSE <<Slice(s, 1, i - 1)>> \o Split(From(s, i + 1), c)

\* urlparse(url): [scheme, hostname, port, path, query]; hostname is "" for
\* None, port is <<>> for None and <<n>> for the integer n.
urlparse(url) ==
    LET i       == Find(url, ":", 1)
        hasScheme == /\ i <= Len(url)
                   /\ i > 1
                   /\ Slice(url, 1, 1) \in Letters
                   /\ \A k \in 1..(i - 1) : Slice(url, k, k) \in SchemeChars
        scheme  == IF hasScheme THEN Slice(url, 1, i - 1) ELSE ""
        rest    == IF hasScheme THEN From(url, i + 1) ELSE url
        hasNetloc == Slice(rest, 1, 2) = "//"
        stop    == Min(Find(rest, "/", 3), Find(rest, "?", 3))
        netloc  == IF hasNetloc THEN Slice(rest, 3, stop - 1) ELSE ""
        tail    == IF hasNetloc THEN From(rest, stop) ELSE rest
        q       == Find(tail, "?", 1)
        c       == Find(netloc, ":", 1)
        portstr == From(netloc, c + 1)
    IN  [scheme   |-> scheme,
         hostname |-> Slice(netloc, 1, c - 1),
         port     |-> IF portstr = "" THEN <<>> ELSE <<ParseInt(portstr)>>,
         path     |-> Slice(tail, 1, q - 1),
         query    |-> From(tail, q + 1)]

\* parse_qsl(query): the (name, value) pairs of the query string, in order;
\* a field without "=" or with a blank value is dropped.
RECURSIVE QueryPairs(_)
QueryPairs(fields) ==
    IF fields = <<>> THEN <<>>
    ELSE LET nv == Head(fields)
             eq == Find(nv, "=", 1)
         IN  (IF eq <= Len(nv) /\ From(nv, eq + 1) # ""
              THEN << <<Slice(nv, 1, eq - 1), From(nv, eq + 1)>> >>
              ELSE <<>>)
             \o QueryPairs(Tail(fields))

parse_qsl(query) == QueryPairs(Split(query, "&"))

\* parse_qs(query), flattened in the order in which
\* `for key, values in query_params.items(): for value in values` visits it:
\* keys in order of first occurrence, the values of a key together.
RECURSIVE DictOrder(_)
DictOrder(pairs) ==
    IF pairs = <<>> THEN <<>>
    ELSE LET k == pairs[1][1]
         IN  SelectSeq(pairs, LAMBDA p : p[1] = k)
             \o DictOrder(SelectSeq(pairs, LAMBDA p : p[1] # k))

parse_qs(query) == DictOrder(parse_qsl(query))

(***************************************************************************)
(* add_user_defined_variables                                              *)
(***************************************************************************)

CollectionProp(name, entries) ==
    [tag |-> "collectionProp", attrib |-> [name |-> name], text |-> <<>>,
     children |-> entries]

\* VariableArgument with the key recorded as the value and the value as the name
VariableArgumentSwapped(var) ==
    [tag |-> "elementProp",
     attrib |-> [name |-> var.key, elementType |-> "Argument"],
     text |-> <<>>,
     children |-> <<Prop("stringProp", "Argument.name", PyStr(var.value)),
                    Prop("stringProp", "Argument.value", var.key),
                    Prop("stringProp", "Argument.metadata", "=")>>]

\* One Argument entry of a variable block.
VariableArgument(var) ==
    [tag |-> "elementProp",
     attrib |-> [name |-> var.key, elementType |-> "Argument"],
     text |-> <<>>,
     children |-> <<Prop("stringProp", "Argument.name", var.key),
                    Prop("stringProp", "Argument.value", PyStr(var.value)),
                    Prop("stringProp", "Argument.metadata", "=")>>]

\* The loop over the variables: entries without key or value are skipped.
RECURSIVE VariableArguments(_)
VariableArguments(variables) ==
    IF variables = <<>> THEN <<>>
    ELSE LET var == Head(variables)
         IN  (IF "key" \in DOMAIN var /\ "value" \in DOMAIN var
              THEN <<VariableArgument(var)>>
              ELSE <<>>)
             \o VariableArguments(Tail(variables))

\* add_user_defined_variables without line 142, the closing hashTree
add_user_defined_variables_unclosed(variables, parent_hash_tree, name) ==
    IF variables = <<>> THEN parent_hash_tree
    ELSE SubElement(parent_hash_tree,
                    [tag |-> "Arguments",
                     attrib |-> [guiclass |-> "ArgumentsPanel",
                                 testclass |-> "Arguments",
                                 testname |-> name,
                                 enabled |-> "true"],
                     text |-> <<>>,
                     children |-> <<CollectionProp("Arguments.arguments",
                                                   VariableArguments(variables))>>])

\* The parent hashTree after add_user_defined_variables(variables, parent, name).
add_user_defined_variables(variables, parent_hash_tree, name) ==
    IF variables = <<>> THEN parent_hash_tree
    ELSE LET arguments ==
                 [tag |-> "Arguments",
                  attrib |-> [guiclass |-> "ArgumentsPanel",
                              testclass |-> "Arguments",
                              testname |-> name,
                              enabled |-> "true"],
                  text |-> <<>>,
                  children |-> <<CollectionProp("Arguments.arguments",
                                                VariableArguments(variables))>>]
         IN  SubElement(SubElement(parent_hash_tree, arguments), HashTree)

(***************************************************************************)
(* process_request: body                                                   *)
(***************************************************************************)

\* The elementProp named HTTPsampler.Arguments around a list of arguments.
ArgumentsElement(args) ==
    [tag |-> "elementProp",
     attrib |-> [name |-> "HTTPsampler.Arguments",
                 elementType |-> "Arguments",
                 guiclass |-> "HTTPArgumentsPanel",
                 testclass |-> "Arguments",
                 enabled |-> "true"],
     text |-> <<>>,
     children |-> <<CollectionProp("Arguments.arguments", args)>>]

\* The single unnamed argument of a raw body.
RawArgument(raw) ==
    [tag |-> "elementProp",
     attrib |-> [name |-> "", elementType |-> "HTTPArgument"],
     text |-> <<>>,
     children |-> <<Prop("boolProp", "HTTPArgument.always_encode", "false"),
                    Prop("stringProp", "Argument.value", raw),
                    Prop("stringProp", "Argument.metadata", "=")>>]

\* A named argument, from an urlencoded body entry or a query parameter.
HTTPArgument(key, value, always_encode) ==
    [tag |-> "elementProp",
     attrib |-> [name |-> key, elementType |-> "HTTPArgument"],
     text |-> <<>>,
     children |-> <<Prop("boolProp", "HTTPArgument.always_encode", always_encode),
                    Prop("stringProp", "Argument.value", value),
                    Prop("stringProp", "Argument.metadata", "="),
                    Prop("boolProp", "HTTPArgument.use_equals", "true"),
                    Prop("stringProp", "Argument.name", key)>>]

\* UrlencodedArguments that drops the entries without value, as the query
\* branch does
RECURSIVE UrlencodedArgumentsWithValue(_)
UrlencodedArgumentsWithValue(params) ==
    IF params = <<>> THEN <<>>
    ELSE (IF "value" \in DOMAIN Head(params)
          THEN <<HTTPArgument(Get(Head(params), "key", ""),
                              Head(params).value, "false")>>
          ELSE <<>>)
         \o UrlencodedArgumentsWithValue(Tail(params))

RECURSIVE UrlencodedArguments(_)
UrlencodedArguments(params) ==
    IF params = <<>> THEN <<>>
    ELSE <<HTTPArgument(Get(Head(params), "key", ""),
                        Get(Head(params), "value", ""), "false")>>
         \o UrlencodedArguments(Tail(params))

\* ProcessBody without the placeholder container for a request without body
ProcessBodyNoPlaceholder(sampler, request) ==
    IF "body" \in DOMAIN request
    THEN LET body == request.body
         IN  IF /\ Get(body, "mode", "") = "raw"
                /\ "raw" \in DOMAIN body
                /\ body.raw # ""
             THEN SubElement(
                      SubElement(sampler,
                                 Prop("boolProp", "HTTPSampler.postBodyRaw", "true")),
                      ArgumentsElement(<<RawArgument(body.raw)>>))
             ELSE IF /\ Get(body, "mode", "") = "urlencoded"
                     /\ "urlencoded" \in DOMAIN body
                     /\ body.urlencoded # <<>>
             THEN SubElement(sampler,
                             ArgumentsElement(UrlencodedArguments(body.urlencoded)))
             ELSE SubElement(sampler, ArgumentsElement(<<>>))
    ELSE sampler

\* The sampler after the body section.
ProcessBody(sampler, request) ==
    IF "body" \in DOMAIN request
    THEN LET body == request.body
         IN  IF /\ Get(body, "mode", "") = "raw"
                /\ "raw" \in DOMAIN body
                /\ body.raw # ""
             THEN SubElement(
                      SubElement(sampler,
                                 Prop("boolProp", "HTTPSampler.postBodyRaw", "true")),
                      ArgumentsElement(<<RawArgument(body.raw)>>))
             ELSE IF /\ Get(body, "mode", "") = "urlencoded"
                     /\ "urlencoded" \in DOMAIN body
                     /\ body.urlencoded # <<>>
             THEN SubElement(sampler,
                             ArgumentsElement(UrlencodedArguments(body.urlencoded)))
             ELSE SubElement(sampler, ArgumentsElement(<<>>))
    ELSE SubElement(sampler, ArgumentsElement(<<>>))

\* The sampler after the fixed properties and the method.
ProcessCommon(sampler, request) ==
    [sampler EXCEPT !.children = @ \o
        <<Prop("boolProp", "HTTPSampler.auto_redirects", "false"),
          Prop("boolProp", "HTTPSampler.follow_redirects", "true"),
          Prop("boolProp", "HTTPSampler.use_keepalive", "true"),
          Prop("boolProp", "HTTPSampler.monitor", "false"),
          Prop("boolProp", "HTTPSampler.DO_MULTIPART_POST", "false"),
          BareProp("stringProp", "HTTPSampler.embedded_url_re"),
          BareProp("stringProp", "HTTPSampler.contentEncoding"),
          Prop("stringProp", "HTTPSampler.method", Get(request, "method", "GET"))>>]

(***************************************************************************)
(* process_request: URL                                                    *)
(***************************************************************************)

RECURSIVE QueryStringArguments(_)
QueryStringArguments(pairs) ==
    IF pairs = <<>> THEN <<>>
    ELSE <<HTTPArgument(Head(pairs)[1], Head(pairs)[2], "true")>>
         \o QueryStringArguments(Tail(pairs))

\* The branch `isinstance(url_data, str)`.
ProcessStringUrl(sampler, url) ==
    LET parsed_url == urlparse(url)
        port == IF parsed_url.port # <<>> /\ parsed_url.port[1] # 0
                THEN ToString(parsed_url.port[1])
                ELSE ""
        fields ==
            [sampler EXCEPT !.children = @ \o
                <<Prop("stringProp", "HTTPSampler.domain", parsed_url.hostname),
                  Prop("stringProp", "HTTPSampler.path", parsed_url.path),
                  Prop("stringProp", "HTTPSampler.protocol",
                       IF parsed_url.scheme # "" THEN parsed_url.scheme ELSE "http"),
                  Prop("stringProp", "HTTPSampler.port", port)>>]
    IN  IF parsed_url.query # ""
        THEN SubElement(fields,
                        ArgumentsElement(
                            QueryStringArguments(parse_qs(parsed_url.query))))
        ELSE fields

\* The query entries that have both key and value, as arguments.
RECURSIVE QueryArguments(_)
QueryArguments(query) ==
    IF query = <<>> THEN <<>>
    ELSE LET param == Head(query)
         IN  (IF "key" \in DOMAIN param /\ "value" \in DOMAIN param
              THEN <<HTTPArgument(Get(param, "key", ""),
                                  Get(param, "value", ""), "true")>>
              ELSE <<>>)
             \o QueryArguments(Tail(query))

IsArgumentsCollection(e) ==
    IsTag(e, "collectionProp") /\ HasAttr(e, "name", "Arguments.arguments")

IsArgumentsElement(e) ==
    /\ IsTag(e, "elementProp")
    /\ HasAttr(e, "name", "HTTPsampler.Arguments")

\* FindArguments with a path that matches no element
FindArgumentsNowhere(sampler) == <<>>

\* sampler.find("./elementProp[@name='HTTPsampler.Arguments']
\*               /collectionProp[@name='Arguments.arguments']"):
\* <<i, j>>, the child index of the elementProp and of the collectionProp in
\* it, for the first match in document order; <<>> for None.
FindArguments(sampler) ==
    LET hits == Select(sampler,
                       LAMBDA e : /\ IsArgumentsElement(e)
                                  /\ Select(e, IsArgumentsCollection) # {})
    IN  IF hits = {} THEN <<>>
        ELSE LET i == SetMin(hits)
             IN  <<i, SetMin(Select(sampler.children[i], IsArgumentsCollection))>>

\* The query section of the structured branch.
ProcessQuery(sampler, url_data) ==
    IF "query" \in DOMAIN url_data /\ url_data.query # <<>>
    THEN LET found == FindArguments(sampler)
             base  == IF found = <<>>
                      THEN SubElement(sampler, ArgumentsElement(<<>>))
                      ELSE sampler
             at    == IF found = <<>>
                      THEN <<Len(base.children), 1>>
                      ELSE found
         IN  [base EXCEPT !.children[at[1]].children[at[2]].children =
                              @ \o QueryArguments(url_data.query)]
    ELSE sampler

\* The branch `isinstance(url_data, dict)`.
\* ProcessDictUrl that strips every trailing colon of the protocol
ProcessDictUrlStripAll(sampler, url_data) ==
    LET RECURSIVE rstrip(_)
        rstrip(p) == IF p # "" /\ Slice(p, Len(p), Len(p)) = ":"
                     THEN rstrip(Slice(p, 1, Len(p) - 1))
                     ELSE p
        host       == Join(".", Get(url_data, "host", <<"localhost">>))
        path_parts == Get(url_data, "path", [t |-> "list", v |-> <<>>])
        path       == IF path_parts.t = "list"
                      THEN "/" \o Join("/", path_parts.v)
                      ELSE path_parts.v
        protocol   == rstrip(Get(url_data, "protocol", "http"))
        port       == Get(url_data, "port", [t |-> "str", v |-> ""])
        fields ==
            [sampler EXCEPT !.children = @ \o
                <<Prop("stringProp", "HTTPSampler.domain", host),
                  Prop("stringProp", "HTTPSampler.path", path),
                  Prop("stringProp", "HTTPSampler.protocol", protocol),
                  Prop("stringProp", "HTTPSampler.port", PyStr(port))>>]
    IN  ProcessQuery(fields, url_data)

ProcessDictUrl(sampler, url_data) ==
    LET host       == Join(".", Get(url_data, "host", <<"localhost">>))
        path_parts == Get(url_data, "path", [t |-> "list", v |-> <<>>])
        path       == IF path_parts.t = "list"
                      THEN "/" \o Join("/", path_parts.v)
                      ELSE path_parts.v
        given      == Get(url_data, "protocol", "http")
        protocol   == IF given # "" /\ Slice(given, Len(given), Len(given)) = ":"
                      THEN Slice(given, 1, Len(given) - 1)
                      ELSE given
        port       == Get(url_data, "port", [t |-> "str", v |-> ""])
        fields ==
            [sampler EXCEPT !.children = @ \o
                <<Prop("stringProp", "HTTPSampler.domain", host),
                  Prop("stringProp", "HTTPSampler.path", path),
                  Prop("stringProp", "HTTPSampler.protocol", protocol),
                  Prop("stringProp", "HTTPSampler.port", PyStr(port))>>]
    IN  ProcessQuery(fields, url_data)

\* The sampler after the URL section.
ProcessUrl(sampler, request) ==
    IF "url" \in DOMAIN request
    THEN IF request.url.t = "str" THEN ProcessStringUrl(sampler, request.url.v)
         ELSE IF request.url.t = "dict" THEN ProcessDictUrl(sampler, request.url.v)
         ELSE sampler
    ELSE sampler

(***************************************************************************)
(* process_request: headers, path variables, and the whole                 *)
(***************************************************************************)

\* HeaderEntries that skips the headers lacking key or value, as the
\* variable blocks do
RECURSIVE HeaderEntriesComplete(_)
HeaderEntriesComplete(headers) ==
    IF headers = <<>> THEN <<>>
    ELSE (IF {"key", "value"} \subseteq DOMAIN Head(headers)
          THEN <<[tag |-> "elementProp",
                  attrib |-> [name |-> "", elementType |-> "Header"],
                  text |-> <<>>,
                  children |-> <<Prop("stringProp", "Header.name", Head(headers).key),
                                 Prop("stringProp", "Header.value",
                                      Head(headers).value)>>]>>
          ELSE <<>>)
         \o HeaderEntriesComplete(Tail(headers))

RECURSIVE HeaderEntries(_)
HeaderEntries(headers) ==
    IF headers = <<>> THEN <<>>
    ELSE <<[tag |-> "elementProp",
            attrib |-> [name |-> "", elementType |-> "Header"],
            text |-> <<>>,
            children |-> <<Prop("stringProp", "Header.name",
                                Get(Head(headers), "key", "")),
                           Prop("stringProp", "Header.value",
                                Get(Head(headers), "value", ""))>>]>>
         \o HeaderEntries(Tail(headers))

\* The sampler's hashTree after the header section.
ProcessHeaders(sampler_hash_tree, request) ==
    IF "header" \in DOMAIN request /\ request.header # <<>>
    THEN LET header_manager ==
                 [tag |-> "HeaderManager",
                  attrib |-> [guiclass |-> "HeaderPanel",
                              testclass |-> "HeaderManager",
                              testname |-> "HTTP Header Manager",
                              enabled |-> "true"],
                  text |-> <<>>,
                  children |-> <<CollectionProp("HeaderManager.headers",
                                                HeaderEntries(request.header))>>]
         IN  SubElement(SubElement(sampler_hash_tree, header_manager), HashTree)
    ELSE sampler_hash_tree

\* ProcessPathVariables that adds the block without a closer
ProcessPathVariablesUnclosed(sampler_hash_tree, request) ==
    IF /\ "url" \in DOMAIN request
       /\ request.url.t = "dict"
       /\ "variable" \in DOMAIN request.url.v
       /\ request.url.v.variable # <<>>
    THEN add_user_defined_variables_unclosed(request.url.v.variable,
                                             sampler_hash_tree,
                                             "URL Path Variables")
    ELSE sampler_hash_tree

\* The sampler's hashTree after the path-variable section.
ProcessPathVariables(sampler_hash_tree, request) ==
    IF /\ "url" \in DOMAIN request
       /\ request.url.t = "dict"
       /\ "variable" \in DOMAIN request.url.v
       /\ request.url.v.variable # <<>>
    THEN add_user_defined_variables(request.url.v.variable, sampler_hash_tree,
                                    "URL Path Variables")
    ELSE sampler_hash_tree

NewSampler(item) ==
    Element("HTTPSamplerProxy",
            [guiclass |-> "HttpTestSampleGui",
             testclass |-> "HTTPSamplerProxy",
             testname |-> Get(item, "name", "Unnamed Request"),
             enabled |-> "true"])

\* The parent element after process_request(item, parent_element).
\* process_request that opens a scope also for an item without request
process_request_scoped(item, parent_element) ==
    IF "request" \notin DOMAIN item THEN SubElement(parent_element, HashTree)
    ELSE LET request == item.request
             sampler == ProcessUrl(
                            ProcessCommon(
                                ProcessBody(NewSampler(item), request),
                                request),
                            request)
             sampler_hash_tree ==
                 ProcessPathVariables(ProcessHeaders(HashTree, request), request)
         IN  SubElement(SubElement(parent_element, sampler), sampler_hash_tree)

process_request(item, parent_element) ==
    IF "request" \notin DOMAIN item THEN parent_element
    ELSE LET request == item.request
             sampler == ProcessUrl(
                            ProcessCommon(
                                ProcessBody(NewSampler(item), request),
                                request),
                            request)
             sampler_hash_tree ==
                 ProcessPathVariables(ProcessHeaders(HashTree, request), request)
         IN  SubElement(SubElement(parent_element, sampler), sampler_hash_tree)

(***************************************************************************)
(* convert_postman_to_jmx: the fixed root structure                        *)
(***************************************************************************)

TestPlan ==
    [tag |-> "TestPlan",
     attrib |-> [guiclass |-> "TestPlanGui", testclass |-> "TestPlan",
                 testname |-> "Postman Collection Import", enabled |-> "true"],
     text |-> <<>>,
     children |->
        <<Prop("boolProp", "TestPlan.functional_mode", "false"),
          BareProp("stringProp", "TestPlan.comments"),
          Prop("boolProp", "TestPlan.serialize_threadgroups", "false"),
          BareProp("stringProp", "TestPlan.user_define_classpath"),
          [tag |-> "elementProp",
           attrib |-> [name |-> "TestPlan.user_defined_variables",
                       elementType |-> "Arguments"],
           text |-> <<>>,
           children |-> <<BareProp("collectionProp", "Arguments.arguments")>>]>>]

ThreadGroup(collection) ==
    [tag |-> "ThreadGroup",
     attrib |-> [guiclass |-> "ThreadGroupGui", testclass |-> "ThreadGroup",
                 testname |-> Get(Get(collection, "info", <<>>), "name",
                                  "Postman Requests"),
                 enabled |-> "true"],
     text |-> <<>>,
     children |->
        <<[tag |-> "elementProp",
           attrib |-> [name |-> "ThreadGroup.main_controller",
                       elementType |-> "LoopController",
                       guiclass |-> "LoopControlPanel",
                       testclass |-> "LoopController",
                       enabled |-> "true"],
           text |-> <<>>,
           children |->
              <<Prop("boolProp", "LoopController.continue_forever", "false"),
                Prop("stringProp", "LoopController.loops", "1")>>],
          Prop("stringProp", "ThreadGroup.num_threads", "1"),
          Prop("stringProp", "ThreadGroup.ramp_time", "1"),
          Prop("boolProp", "ThreadGroup.scheduler", "false"),
          Prop("stringProp", "ThreadGroup.duration", "0"),
          Prop("stringProp", "ThreadGroup.delay", "0"),
          Prop("stringProp", "ThreadGroup.on_sample_error", "continue"),
          Prop("boolProp", "ThreadGroup.same_user_on_next_iteration", "true")>>]

\* jmeterTestPlan > hashTree > (TestPlan, hashTree2 > (ThreadGroup, hashTree3))
RootStructure(collection) ==
    LET hash_tree3 == HashTree
        hash_tree2 == SubElement(SubElement(HashTree, ThreadGroup(collection)),
                                 hash_tree3)
        hash_tree  == SubElement(SubElement(HashTree, TestPlan), hash_tree2)
    IN  SubElement(Element("jmeterTestPlan",
                           [version |-> "1.2", properties |-> "5.0",
                            jmeter |-> "5.2.1"]),
                   hash_tree)

\* hash_tree3, the scope of the thread group, inside the document
HashTree3(doc) == doc.children[1].children[2].children[2]

\* The document with hash_tree3 replaced.
WithHashTree3(doc, h) ==
    [doc EXCEPT !.children[1].children[2].children[2] = h]

(***************************************************************************)
(* Serialization: ET.tostring, minidom.parseString, toprettyxml            *)
(* (for text and attribute values without characters that need escaping)   *)
(***************************************************************************)

RECURSIVE Flatten(_)
Flatten(seqs) ==
    IF seqs = <<>> THEN <<>> ELSE Head(seqs) \o Flatten(Tail(seqs))

\* ET.tostring: an element without text and without children is written in
\* the short form <tag ... />, every other element as <tag ...>...</tag>.
RECURSIVE tostring(_)
tostring(e) ==
    LET text == IF e.text = <<>> THEN "" ELSE e.text[1]
    IN  [tag |-> e.tag, attrib |-> e.attrib,
         short |-> (text = "" /\ e.children = <<>>),
         text |-> text,
         children |-> [i \in 1..Len(e.children) |-> tostring(e.children[i])]]

\* minidom.parseString: non-empty character data becomes a Text child node;
\* <tag ... /> and <tag ...></tag> both give an element without child nodes.
RECURSIVE parseString(_)
parseString(m) ==
    [nodeType |-> "element", tagName |-> m.tag, attributes |-> m.attrib,
     childNodes |->
        (IF m.text # "" THEN <<[nodeType |-> "text", data |-> m.text]>>
         ELSE <<>>)
        \o [i \in 1..Len(m.children) |-> parseString(m.children[i])]]

\* The order in which the code inserts the attributes it uses.
AttributeOrder ==
    <<"version", "properties", "jmeter", "name", "elementType", "guiclass",
      "testclass", "testname", "enabled">>

RECURSIVE WriteAttributes(_, _)
WriteAttributes(attributes, names) ==
    IF names = <<>> THEN ""
    ELSE (IF Head(names) \in DOMAIN attributes
          THEN " " \o Head(names) \o "=\"" \o attributes[Head(names)] \o "\""
          ELSE "")
         \o WriteAttributes(attributes, Tail(names))

RECURSIVE Indent(_)
Indent(depth) == IF depth = 0 THEN "" ELSE "    " \o Indent(depth - 1)

\* Element.writexml with indent "    " and newl "\n": the lines of a node.
RECURSIVE writexml(_, _)
writexml(node, depth) ==
    LET open == Indent(depth) \o "<" \o node.tagName
                \o WriteAttributes(node.attributes, AttributeOrder)
        close == "</" \o node.tagName \o ">"
    IN  IF node.childNodes = <<>> THEN <<open \o "/>">>
        ELSE IF Len(node.childNodes) = 1 /\ node.childNodes[1].nodeType = "text"
        THEN <<open \o ">" \o node.childNodes[1].data \o close>>
        ELSE <<open \o ">">>
             \o Flatten([i \in 1..Len(node.childNodes) |->
                            writexml(node.childNodes[i], depth + 1)])
             \o <<Indent(depth) \o close>>

\* Lines 102-104: the lines of pretty_xml.
toprettyxml(jmeter_test_plan) ==
    <<"<?xml version=\"1.0\" ?>">>
    \o writexml(parseString(tostring(jmeter_test_plan)), 0)

(***************************************************************************)
(* State                                                                   *)
(***************************************************************************)

VARIABLES
    files,              \* the file system: path -> file
    call,               \* the arguments of the conversion in progress
    pc,                 \* the position of the conversion
    collection,         \* the loaded collection
    environment_vars,   \* the enabled environment entries
    jmeter_test_plan,   \* the document under construction
    pending,            \* the items process_items has still to visit
    pretty_xml,         \* the lines of the serialized document
    stdout,             \* the lines printed by the conversion
    raised,             \* the exception that ended the conversion, "" if none
    calls,              \* the number of conversions started
    golden              \* history: <<text>> written by the latest conversion
                        \* that was given no environment file, <<>> if none

vars == <<files, call, pc, collection, environment_vars, jmeter_test_plan,
          pending, pretty_xml, stdout, raised, calls, golden>>

CollectionPath == "collection.json"
EnvironmentPath == "env.json"
MissingPath == "missing.json"
BrokenPath == "broken.json"
OutputPath == "out.jmx"

Paths == {CollectionPath, EnvironmentPath, MissingPath, BrokenPath, OutputPath}

\* A file: whether it exists, whether json.load accepts it, the value
\* json.load returns, and (for a written output) its lines.
AbsentFile == [exists |-> FALSE, json |-> FALSE, data |-> <<>>, text |-> <<>>]
BrokenFile == [exists |-> TRUE, json |-> FALSE, data |-> <<>>, text |-> <<>>]
JsonFile(data) == [exists |-> TRUE, json |-> TRUE, data |-> data, text |-> <<>>]
TextFile(text) == [exists |-> TRUE, json |-> FALSE, data |-> <<>>, text |-> text]

NoDocument == Element("", NoAttrib)

(***************************************************************************)
(* convert_postman_to_jmx, step by step                                    *)
(***************************************************************************)

\* The locals of a conversion that has just been called.
Enter(postman_file, environment_file) ==
    /\ call' = [postman_file |-> postman_file, output_file |-> OutputPath,
                environment_file |-> environment_file]
    /\ pc' = "load_collection"
    /\ collection' = <<>>
    /\ environment_vars' = <<>>
    /\ jmeter_test_plan' = NoDocument
    /\ pending' = <<>>
    /\ pretty_xml' = <<>>
    /\ stdout' = <<>>
    /\ raised' = ""
    /\ calls' = calls + 1
    /\ UNCHANGED <<files, golden>>

\* convert_postman_to_jmx(postman_file, OutputPath, environment_file);
\* environment_file "" stands for None (both are false in `if environment_file`).
Call ==
    /\ pc = "idle"
    /\ \E postman_file \in {CollectionPath, MissingPath, BrokenPath},
          environment_file \in {"", EnvironmentPath, MissingPath, BrokenPath} :
            Enter(postman_file, environment_file)

\* LoadCollection with the output file opened for writing before the load
LoadCollectionOutputFirst ==
    /\ pc = "load_collection"
    /\ files' = [files EXCEPT ![call.output_file] = TextFile(<<>>)]
    /\ LET f == files[call.postman_file]
       IN  IF ~f.exists
           THEN /\ raised' = "FileNotFoundError"
                /\ pc' = "raised"
                /\ UNCHANGED collection
           ELSE IF ~f.json
           THEN /\ raised' = "JSONDecodeError"
                /\ pc' = "raised"
                /\ UNCHANGED collection
           ELSE /\ collection' = f.data
                /\ pc' = "load_environment"
                /\ UNCHANGED raised
    /\ UNCHANGED <<call, environment_vars, jmeter_test_plan, pending,
                   pretty_xml, stdout, calls, golden>>

\* Lines 18-19: open and json.load the collection; either may raise.
LoadCollection ==
    /\ pc = "load_collection"
    /\ LET f == files[call.postman_file]
       IN  IF ~f.exists
           THEN /\ raised' = "FileNotFoundError"
                /\ pc' = "raised"
                /\ UNCHANGED collection
           ELSE IF ~f.json
           THEN /\ raised' = "JSONDecodeError"
                /\ pc' = "raised"
                /\ UNCHANGED collection
           ELSE /\ collection' = f.data
                /\ pc' = "load_environment"
                /\ UNCHANGED raised
    /\ UNCHANGED <<files, call, environment_vars, jmeter_test_plan, pending,
                   pretty_xml, stdout, calls, golden>>

\* EnabledEntries without the filter
EnabledEntriesAll(values) == values

\* Line 29: the entries v with v.get('enabled', True) true
EnabledEntries(values) ==
    SelectSeq(values,
              LAMBDA v : Truthy(Get(v, "enabled", [t |-> "bool", v |-> TRUE])))

\* EnvironmentWarning with the two messages exchanged
EnvironmentWarningSwapped(environment_file, f) ==
    IF f.exists
    THEN "Warning: Environment file '" \o environment_file
         \o "' not found. Skipping environment variables."
    ELSE "Warning: Could not parse environment file '" \o environment_file
         \o "'. Skipping environment variables."

\* Lines 31 and 33: the warning for a file that cannot be opened or parsed
EnvironmentWarning(environment_file, f) ==
    IF ~f.exists
    THEN "Warning: Environment file '" \o environment_file
         \o "' not found. Skipping environment variables."
    ELSE "Warning: Could not parse environment file '" \o environment_file
         \o "'. Skipping environment variables."

\* Lines 22-33
LoadEnvironment ==
    /\ pc = "load_environment"
    /\ IF call.environment_file = ""
       THEN UNCHANGED <<environment_vars, stdout>>
       ELSE LET f == files[call.environment_file]
            IN  IF f.exists /\ f.json
                THEN /\ environment_vars' =
                            IF "values" \in DOMAIN f.data
                            THEN EnabledEntries(f.data.values)
                            ELSE <<>>
                     /\ UNCHANGED stdout
                ELSE /\ stdout' = Append(stdout,
                            EnvironmentWarning(call.environment_file, f))
                     /\ UNCHANGED environment_vars
    /\ pc' = "build_root"
    /\ UNCHANGED <<files, call, collection, jmeter_test_plan, pending,
                   pretty_xml, raised, calls, golden>>

\* Lines 37-87
BuildRoot ==
    /\ pc = "build_root"
    /\ jmeter_test_plan' = RootStructure(collection)
    /\ pc' = "collection_variables"
    /\ UNCHANGED <<files, call, collection, environment_vars, pending,
                   pretty_xml, stdout, raised, calls, golden>>

\* Lines 90-91
CollectionVariables ==
    /\ pc = "collection_variables"
    /\ jmeter_test_plan' =
          IF "variable" \in DOMAIN collection
          THEN WithHashTree3(jmeter_test_plan,
                   add_user_defined_variables(collection.variable,
                                              HashTree3(jmeter_test_plan),
                                              "Collection Variables"))
          ELSE jmeter_test_plan
    /\ pc' = "environment_variables"
    /\ UNCHANGED <<files, call, collection, environment_vars, pending,
                   pretty_xml, stdout, raised, calls, golden>>

\* EnvironmentVariables with the block put at the start of the thread group's
\* hashTree
EnvironmentVariablesFirst ==
    /\ pc = "environment_variables"
    /\ jmeter_test_plan' =
          IF environment_vars # <<>>
          THEN LET h == HashTree3(jmeter_test_plan)
                   block == add_user_defined_variables(environment_vars, HashTree,
                                                       "Environment Variables")
               IN  WithHashTree3(jmeter_test_plan,
                                 [h EXCEPT !.children = block.children \o @])
          ELSE jmeter_test_plan
    /\ pc' = "items"
    /\ UNCHANGED <<files, call, collection, environment_vars, pending,
                   pretty_xml, stdout, raised, calls, golden>>

\* Lines 94-95
EnvironmentVariables ==
    /\ pc = "environment_variables"
    /\ jmeter_test_plan' =
          IF environment_vars # <<>>
          THEN WithHashTree3(jmeter_test_plan,
                   add_user_defined_variables(environment_vars,
                                              HashTree3(jmeter_test_plan),
                                              "Environment Variables"))
          ELSE jmeter_test_plan
    /\ pc' = "items"
    /\ UNCHANGED <<files, call, collection, environment_vars, pending,
                   pretty_xml, stdout, raised, calls, golden>>

\* ExpandFolder with the folder's children put after the rest of the sequence
ExpandFolderLast(item, rest) == rest \o item.item

\* Line 157: the children of a folder are visited before the items after it.
ExpandFolder(item, rest) == item.item \o rest

\* Lines 98-99: process_items is entered with the collection's items.
ProcessItems ==
    /\ pc = "items"
    /\ pending' = IF "item" \in DOMAIN collection THEN collection.item ELSE <<>>
    /\ pc' = "walk"
    /\ UNCHANGED <<files, call, collection, environment_vars, jmeter_test_plan,
                   pretty_xml, stdout, raised, calls, golden>>

\* Lines 152-157: one iteration of the loop, on a folder
VisitFolder ==
    /\ pc = "walk"
    /\ pending # <<>>
    /\ "item" \in DOMAIN Head(pending)
    /\ pending' = ExpandFolder(Head(pending), Tail(pending))
    /\ UNCHANGED <<files, call, pc, collection, environment_vars,
                   jmeter_test_plan, pretty_xml, stdout, raised, calls, golden>>

\* Lines 158-160: one iteration of the loop, on a leaf
VisitRequest ==
    /\ pc = "walk"
    /\ pending # <<>>
    /\ "item" \notin DOMAIN Head(pending)
    /\ jmeter_test_plan' =
          WithHashTree3(jmeter_test_plan,
                        process_request(Head(pending),
                                        HashTree3(jmeter_test_plan)))
    /\ pending' = Tail(pending)
    /\ UNCHANGED <<files, call, pc, collection, environment_vars, pretty_xml,
                   stdout, raised, calls, golden>>

\* Serialize that already writes the text to the output path
SerializeToFile ==
    /\ pc = "walk"
    /\ pending = <<>>
    /\ pretty_xml' = toprettyxml(jmeter_test_plan)
    /\ files' = [files EXCEPT ![call.output_file] =
                                 TextFile(toprettyxml(jmeter_test_plan))]
    /\ pc' = "write"
    /\ UNCHANGED <<call, collection, environment_vars, jmeter_test_plan,
                   pending, stdout, raised, calls, golden>>

\* Lines 102-104
Serialize ==
    /\ pc = "walk"
    /\ pending = <<>>
    /\ pretty_xml' = toprettyxml(jmeter_test_plan)
    /\ pc' = "write"
    /\ UNCHANGED <<files, call, collection, environment_vars, jmeter_test_plan,
                   pending, stdout, raised, calls, golden>>

\* Lines 107-108
WriteOutput ==
    /\ pc = "write"
    /\ files' = [files EXCEPT ![call.output_file] = TextFile(pretty_xml)]
    /\ golden' = IF call.environment_file = "" THEN <<pretty_xml>> ELSE golden
    /\ pc' = "done"
    /\ UNCHANGED <<call, collection, environment_vars, jmeter_test_plan,
                   pending, pretty_xml, stdout, raised, calls>>

\* A further conversion, after the previous one has returned or raised.
MaxCalls == 2

CallAgain ==
    /\ pc \in {"done", "raised"}
    /\ calls < MaxCalls
    /\ \E postman_file \in {CollectionPath, MissingPath, BrokenPath},
          environment_file \in {"", EnvironmentPath, MissingPath, BrokenPath} :
            Enter(postman_file, environment_file)

(***************************************************************************)
(* Inputs                                                                  *)
(***************************************************************************)

MaxDepth == 2       \* folders nested in folders
MaxEntries == 2     \* entries in a sequence of the input

SeqsUpTo(S, n) == UNION {[1..k -> S] : k \in 0..n}

Str(s) == [t |-> "str", v |-> s]
Num(n) == [t |-> "num", v |-> n]
Bool(b) == [t |-> "bool", v |-> b]
Null == [t |-> "null"]
KV(k, v) == [key |-> k, value |-> v]

\* A leaf with a request, and a leaf without
Leaf(name) ==
    [name |-> name,
     request |-> [method |-> "GET",
                  url |-> Str("http://example.com/" \o name)]]
Bare(name) == [name |-> name]

\* Item sequences with folders nested to depth d.
RECURSIVE Level(_)
Level(d) ==
    IF d = 0 THEN SeqsUpTo({Leaf("a0"), Bare("x0")}, MaxEntries)
    ELSE Level(0) \cup
         {pre \o <<[name |-> "f" \o ToString(d), item |-> t]>> \o suf :
             pre \in {<<>>, <<Leaf("a" \o ToString(d))>>},
             suf \in {<<>>, <<Leaf("b" \o ToString(d))>>},
             t \in Level(d - 1)}

TreeCollections == {[info |-> [name |-> "Tree"], item |-> t] : t \in Level(MaxDepth)}

\* The records that carry the field `name` with a value of S, and the record
\* without the field.
Optional(name, S) == {<<>>} \cup {name :> x : x \in S}

Bodies ==
    {<<>>, [mode |-> "raw", raw |-> "payload"], [mode |-> "raw", raw |-> ""],
     [mode |-> "raw"], [mode |-> "formdata"], [mode |-> "urlencoded"]}
    \cup {[mode |-> "urlencoded", urlencoded |-> ps] :
             ps \in SeqsUpTo({KV("p", "1"), [key |-> "q"]}, MaxEntries)}

StringUrls ==
    {"http://example.com:8080/api/users", "https://example.com/api",
     "http://example.com/p?a=1", "http://example.com/p?a=1&b=2&a=3&c=",
     "example.com/x", "http://localhost:0/z"}

PlainUrl ==
    [host |-> <<"example", "com">>, path |-> [t |-> "list", v |-> <<"api", "users">>],
     protocol |-> "http:", port |-> Str("8080")]

QueryParams == {KV("q", "1"), KV("r", "2"), [key |-> "nov"]}

PathVariables == {KV("id", Str("7")), KV("n", Num(7)), [key |-> "nov"]}

DictUrls ==
    {<<>>, PlainUrl,
     [host |-> <<"localhost">>, path |-> Str("/lit"), protocol |-> "https",
      port |-> Num(443)],
     [path |-> [t |-> "list", v |-> <<>>], protocol |-> ":",
      query |-> <<[value |-> "nok"], KV("q", "1")>>,
      variable |-> <<KV("id", Str("7"))>>]}
    \cup {[host |-> <<"example", "com">>, query |-> q] :
             q \in SeqsUpTo(QueryParams, MaxEntries)}

VariableUrls ==
    {[host |-> <<"example", "com">>, port |-> Num(80), variable |-> v] :
        v \in SeqsUpTo(PathVariables, MaxEntries)}

Urls == {Null} \cup {Str(u) : u \in StringUrls}
        \cup {[t |-> "dict", v |-> u] : u \in DictUrls}

Headers == SeqsUpTo({KV("h", "1"), [key |-> "k"], [value |-> "v"]}, MaxEntries)

Requests ==
    {b @@ u : b \in Optional("body", Bodies), u \in Optional("url", Urls)}
    \cup {b @@ [url |-> [t |-> "dict", v |-> u]] :
             b \in Optional("body", {[mode |-> "raw", raw |-> "payload"]}),
             u \in VariableUrls}
    \cup {h @@ u @@ b :
             h \in Optional("header", Headers),
             u \in Optional("url", {Str("http://example.com/p?a=1"),
                                    [t |-> "dict", v |-> PlainUrl],
                                    [t |-> "dict", v |->
                                        [variable |-> <<KV("id", Str("7"))>>]]}),
             b \in {<<>>, [method |-> "POST",
                           body |-> [mode |-> "raw", raw |-> "payload"]]}}

RequestCollections ==
    {[info |-> [name |-> "Request"], item |-> <<[name |-> "r", request |-> r]>>] :
        r \in Requests}

Variables == {KV("v", Str("1")), KV("n", Num(2)), [key |-> "k"], [value |-> Str("x")]}

VariableCollections ==
    {[variable |-> vs, item |-> <<Leaf("a")>>] :
        vs \in SeqsUpTo(Variables, MaxEntries)}

\* Collections of other shapes: no items, a folder that also has a request,
\* an unnamed request, a folder nested in the sampler-rich item.
OtherCollections ==
    {<<>>,
     [info |-> <<>>, item |-> <<>>],
     [info |-> [name |-> "Other"], variable |-> <<KV("v", Str("1"))>>,
      item |-> <<[name |-> "f", item |-> <<>>, request |-> Leaf("a").request],
                 [request |-> [url |-> [t |-> "dict", v |-> PlainUrl],
                               header |-> <<KV("h", "1")>>]],
                 [name |-> "g",
                  item |-> <<[name |-> "deep",
                              request |-> [url |-> [t |-> "dict", v |->
                                             [query |-> <<KV("q", "1")>>,
                                              variable |-> <<[key |-> "nov"]>>]],
                                           body |-> [mode |-> "urlencoded",
                                                     urlencoded |-> <<KV("p", "1")>>]]]>>],
                 Leaf("z")>>],
     [item |-> <<[name |-> "ws",
                  request |-> [url |-> [t |-> "dict", v |->
                                  [protocol |-> "ws::", path |-> Str("")]]]]>>]}

DefaultCollection ==
    [info |-> [name |-> "Default"], variable |-> <<KV("v", Str("1"))>>,
     item |-> <<Leaf("a"), [name |-> "f", item |-> <<Leaf("b")>>]>>]

\* Entries of an environment, one key per shape of entry
EnvironmentEntries ==
    {KV("plain", Str("1")),
     [key |-> "on", value |-> Str("1"), enabled |-> Bool(TRUE)],
     [key |-> "off", value |-> Str("1"), enabled |-> Bool(FALSE)],
     [key |-> "one", value |-> Num(1), enabled |-> Num(1)],
     [key |-> "null", value |-> Bool(TRUE), enabled |-> Null],
     [key |-> "nov", enabled |-> Bool(TRUE)],
     [value |-> Str("nok")]}

Environments ==
    {<<>>} \cup {[values |-> vs] : vs \in SeqsUpTo(EnvironmentEntries, MaxEntries)}

DefaultEnvironment ==
    [values |-> <<[key |-> "on", value |-> Str("1"), enabled |-> Bool(TRUE)],
                  [key |-> "off", value |-> Str("2"), enabled |-> Bool(FALSE)],
                  KV("plain", Str("3"))>>]

\* The file system before the first conversion, and the idle converter.
Start(collection_data, environment_data) ==
    /\ files = [p \in Paths |->
                   CASE p = CollectionPath  -> JsonFile(collection_data)
                     [] p = EnvironmentPath -> JsonFile(environment_data)
                     [] p = BrokenPath      -> BrokenFile
                     [] OTHER               -> AbsentFile]
    /\ call = [postman_file |-> "", output_file |-> "", environment_file |-> ""]
    /\ pc = "idle"
    /\ collection = <<>>
    /\ environment_vars = <<>>
    /\ jmeter_test_plan = NoDocument
    /\ pending = <<>>
    /\ pretty_xml = <<>>
    /\ stdout = <<>>
    /\ raised = ""
    /\ calls = 0
    /\ golden = <<>>

Init ==
    \/ \E c \in TreeCollections \cup RequestCollections
                \cup VariableCollections \cup OtherCollections :
          Start(c, DefaultEnvironment)
    \/ \E e \in Environments : Start(DefaultCollection, e)

Next ==
    \/ Call
    \/ LoadCollection
    \/ LoadEnvironment
    \/ BuildRoot
    \/ CollectionVariables
    \/ EnvironmentVariables
    \/ ProcessItems
    \/ VisitFolder
    \/ VisitRequest
    \/ Serialize
    \/ WriteOutput

Spec == Init /\ [][Next]_vars

\* Several conversions, one after the other, on the same file system.
InitAgain ==
    \E c \in OtherCollections \cup {DefaultCollection},
       e \in {<<>>, DefaultEnvironment, [values |-> <<[key |-> "nov"]>>]} :
          Start(c, e)

NextAgain == Next \/ CallAgain

SpecAgain == InitAgain /\ [][NextAgain]_vars

TypeOK == pc \in {"idle", "load_collection", "load_environment", "build_root",
                  "collection_variables", "environment_variables", "items",
                  "walk", "write", "done", "raised"}

(***************************************************************************)
(* Views of the input and of the document, for the properties              *)
(***************************************************************************)

\* The leaves with a request, in depth-first pre-order
RECURSIVE LeafItems(_)
LeafItems(items) ==
    IF items = <<>> THEN <<>>
    ELSE (IF "item" \in DOMAIN Head(items) THEN LeafItems(Head(items).item)
          ELSE IF "request" \in DOMAIN Head(items) THEN <<Head(items)>>
          ELSE <<>>)
         \o LeafItems(Tail(items))

\* The number of folders around the most deeply nested item
RECURSIVE Depth(_)
Depth(items) ==
    IF items = <<>> THEN 0
    ELSE LET here == IF "item" \in DOMAIN Head(items)
                     THEN 1 + Depth(Head(items).item) ELSE 0
             rest == Depth(Tail(items))
         IN  IF here > rest THEN here ELSE rest

Items == Get(collection, "item", <<>>)

\* Every element of a tree, in document order
RECURSIVE Descendants(_)
Descendants(e) ==
    <<e>> \o Flatten([i \in 1..Len(e.children) |-> Descendants(e.children[i])])

Tagged(elements, tag) == SelectSeq(elements, LAMBDA e : IsTag(e, tag))

\* The samplers directly in the thread group's hashTree
Samplers == Tagged(HashTree3(jmeter_test_plan).children, "HTTPSamplerProxy")

Built == pc \in {"write", "done"} \/ (pc = "walk" /\ pending = <<>>)

TestNames(elements) == [i \in 1..Len(elements) |-> elements[i].attrib.testname]

ItemNames(items) ==
    [i \in 1..Len(items) |-> Get(items[i], "name", "Unnamed Request")]

\* C1: while the items are walked and afterwards, the samplers emitted so far
\* followed by the leaf requests still to visit are the leaf requests of the
\* collection in depth-first pre-order; so the finished document has exactly
\* one sampler per leaf request, in that order.  Every sampler of the
\* document is a direct child of the thread group's hashTree, whose children
\* are only variable blocks, samplers and their closers: nothing stands for a
\* folder.
Flattening ==
    pc \in {"walk", "write", "done"} =>
        LET h == HashTree3(jmeter_test_plan)
        IN  /\ TestNames(Samplers) \o ItemNames(LeafItems(pending))
                 = ItemNames(LeafItems(Items))
            /\ Built => Len(Samplers) = Len(LeafItems(Items))
            /\ Len(Tagged(Descendants(jmeter_test_plan), "HTTPSamplerProxy"))
                 = Len(Samplers)
            /\ \A i \in 1..Len(h.children) :
                  h.children[i].tag \in {"Arguments", "HTTPSamplerProxy", "hashTree"}
            /\ Len(Tagged(h.children, "hashTree"))
                 = Len(Samplers) + Len(Tagged(h.children, "Arguments"))

FlatteningWitness ==
    /\ pc = "done"
    /\ Depth(Items) >= 2
    /\ Len(LeafItems(Items)) >= 3
    /\ Len(Samplers) >= 3

IsContainer(e) ==
    e.tag \in {"TestPlan", "ThreadGroup", "Arguments", "HTTPSamplerProxy",
               "HeaderManager"}

\* Under every parent, each container is directly followed by a hashTree, and
\* under a hashTree each hashTree directly follows a container.
RECURSIVE Paired(_)
Paired(e) ==
    \A i \in 1..Len(e.children) :
        /\ IsContainer(e.children[i]) =>
              /\ i < Len(e.children)
              /\ IsTag(e.children[i + 1], "hashTree")
        /\ (IsTag(e, "hashTree") /\ IsTag(e.children[i], "hashTree")) =>
              /\ i > 1
              /\ IsContainer(e.children[i - 1])
        /\ Paired(e.children[i])

\* C2: after every step of the builder, every TestPlan, ThreadGroup, Arguments
\* block, HTTPSamplerProxy and HeaderManager of the document is immediately
\* followed, under the same parent, by a hashTree, and the closers under a
\* hashTree are exactly those that follow a container.
ScopePairing == Paired(jmeter_test_plan)

ScopePairingWitness ==
    /\ pc = "done"
    /\ Len(Tagged(Descendants(jmeter_test_plan), "HeaderManager")) >= 1
    /\ \E e \in {HashTree3(jmeter_test_plan).children[i] :
                    i \in 1..Len(HashTree3(jmeter_test_plan).children)} :
          /\ IsTag(e, "hashTree")
          /\ Len(Tagged(e.children, "Arguments")) >= 1
    /\ Len(Tagged(HashTree3(jmeter_test_plan).children, "Arguments")) = 2

\* The i-th sampler stands for the i-th leaf request (Flattening).
Leaves == LeafItems(Items)

\* The HTTPsampler.Arguments containers of a sampler, in document order
ArgumentContainers(sampler) == SelectSeq(sampler.children, IsArgumentsElement)

\* The text of the first child of e named `name`, <<>> when there is none
ChildText(e, name) ==
    LET hits == Select(e, LAMBDA c : HasAttr(c, "name", name))
    IN  IF hits = {} THEN <<>> ELSE e.children[SetMin(hits)].text

\* The arguments of a container as <<name, value, always_encode>>
Arguments(container) ==
    LET args == container.children[1].children
    IN  [i \in 1..Len(args) |->
            <<args[i].attrib.name,
              ChildText(args[i], "Argument.value"),
              ChildText(args[i], "HTTPArgument.always_encode")>>]

\* The arguments a body stands for: one unnamed argument for a non-empty raw
\* payload, one per entry for urlencoded entries, none otherwise.
BodyArguments(request) ==
    IF "body" \notin DOMAIN request THEN <<>>
    ELSE LET body == request.body
             mode == Get(body, "mode", "")
         IN  IF mode = "raw" /\ Get(body, "raw", "") # ""
             THEN << <<"", <<body.raw>>, <<"false">> >> >>
             ELSE IF mode = "urlencoded" /\ "urlencoded" \in DOMAIN body
             THEN [i \in 1..Len(body.urlencoded) |->
                      <<Get(body.urlencoded[i], "key", ""),
                        <<Get(body.urlencoded[i], "value", "")>>,
                        <<"false">> >>]
             ELSE <<>>

\* One argument per query entry that has both key and value.
QueryEntryArguments(query) ==
    LET kept == SelectSeq(query, LAMBDA q : {"key", "value"} \subseteq DOMAIN q)
    IN  [i \in 1..Len(kept) |-> <<kept[i].key, <<kept[i].value>>, <<"true">> >>]

\* One argument per name=value field of a query string, the values of a
\* repeated name together.
QueryStringEntryArguments(url) ==
    LET pairs == parse_qs(From(url, Find(url, "?", 1) + 1))
    IN  [i \in 1..Len(pairs) |-> <<pairs[i][1], <<pairs[i][2]>>, <<"true">> >>]

HasQueryString(request) ==
    /\ "url" \in DOMAIN request
    /\ request.url.t = "str"
    /\ Find(request.url.v, "?", 1) < Len(request.url.v)

HasQuerySequence(request) ==
    /\ "url" \in DOMAIN request
    /\ request.url.t = "dict"
    /\ "query" \in DOMAIN request.url.v
    /\ request.url.v.query # <<>>

\* C3: in the finished document, a sampler whose request has a string URL
\* with a query string has exactly one HTTPsampler.Arguments container, which
\* holds the body arguments followed by the query arguments.
StringQueryReuse ==
    pc = "done" =>
        \A i \in 1..Len(Leaves) :
            HasQueryString(Leaves[i].request) =>
                /\ Len(ArgumentContainers(Samplers[i])) = 1
                /\ Arguments(ArgumentContainers(Samplers[i])[1])
                     = BodyArguments(Leaves[i].request)
                       \o QueryStringEntryArguments(Leaves[i].request.url.v)

\* C4: in the finished document, a sampler whose request has a structured
\* URL with a non-empty query sequence has exactly one HTTPsampler.Arguments
\* container, for every shape of body, and the container holds the body
\* arguments followed by one argument per query entry that has both key and
\* value, in input order.
StructuredQueryMerging ==
    pc = "done" =>
        \A i \in 1..Len(Leaves) :
            HasQuerySequence(Leaves[i].request) =>
                /\ Len(ArgumentContainers(Samplers[i])) = 1
                /\ Arguments(ArgumentContainers(Samplers[i])[1])
                     = BodyArguments(Leaves[i].request)
                       \o QueryEntryArguments(Leaves[i].request.url.v.query)

StructuredQueryMergingWitness ==
    /\ pc = "done"
    /\ \E i \in 1..Len(Leaves) :
          /\ HasQuerySequence(Leaves[i].request)
          /\ Len(BodyArguments(Leaves[i].request)) >= 1
          /\ Len(QueryEntryArguments(Leaves[i].request.url.v.query)) >= 1
          /\ Len(QueryEntryArguments(Leaves[i].request.url.v.query))
               < Len(Leaves[i].request.url.v.query)
          /\ Len(Arguments(ArgumentContainers(Samplers[i])[1])) >= 2

ScalarFields ==
    {"HTTPSampler.method", "HTTPSampler.domain", "HTTPSampler.path",
     "HTTPSampler.protocol", "HTTPSampler.port"}

\* C5: in the finished document every sampler carries the fields method,
\* domain, path, protocol and port; for a request without `url` the method is
\* the given one or "GET" and domain, path and port are the empty string.
ScalarFieldsPresent ==
    pc = "done" =>
        \A i \in 1..Len(Leaves) :
            /\ \A f \in ScalarFields :
                  Select(Samplers[i], LAMBDA c : HasAttr(c, "name", f)) # {}
            /\ "url" \notin DOMAIN Leaves[i].request =>
                  /\ ChildText(Samplers[i], "HTTPSampler.method")
                       = <<Get(Leaves[i].request, "method", "GET")>>
                  /\ ChildText(Samplers[i], "HTTPSampler.domain") = <<"">>
                  /\ ChildText(Samplers[i], "HTTPSampler.path") = <<"">>
                  /\ ChildText(Samplers[i], "HTTPSampler.port") = <<"">>

EndsWith(s, suffix) ==
    /\ Len(s) >= Len(suffix)
    /\ Slice(s, Len(s) - Len(suffix) + 1, Len(s)) = suffix

Contains(s, part) ==
    \E i \in 1..(Len(s) - Len(part) + 1) : Slice(s, i, i + Len(part) - 1) = part

Lines(text) == {text[i] : i \in 1..Len(text)}

\* C6: in the written output, a port field with an empty value appears as the
\* pair <stringProp name="HTTPSampler.port"></stringProp>, never as the
\* self-closing <stringProp name="HTTPSampler.port"/>: the output has one
\* pair per sampler with an empty port and no self-closing port.
EmptyPortExplicit ==
    pc = "done" =>
        LET text == files[OutputPath].text
            empty == {i \in 1..Len(Samplers) :
                         ChildText(Samplers[i], "HTTPSampler.port") = <<"">>}
        IN  /\ \A l \in Lines(text) :
                  ~EndsWith(l, "<stringProp name=\"HTTPSampler.port\"/>")
            /\ Cardinality({k \in 1..Len(text) :
                   EndsWith(text[k],
                       "<stringProp name=\"HTTPSampler.port\"></stringProp>")})
                 = Cardinality(empty)

BadCollectionFile == call.postman_file \in {MissingPath, BrokenPath}

DegradedEnvironment == call.environment_file \in {MissingPath, BrokenPath}

\* C7: a conversion given an environment path whose file is missing or is
\* not JSON does not fail (it raises only for the collection file); once the
\* environment is loaded it has printed exactly the warning for that path and
\* holds no environment entry; and the output it writes has no "Environment
\* Variables" block and equals the output of the conversion of the same
\* collection with no environment path.
DegradedEnvironmentLoad ==
    DegradedEnvironment =>
        /\ pc = "raised" => BadCollectionFile
        /\ pc \in {"build_root", "collection_variables", "environment_variables",
                   "items", "walk", "write", "done"} =>
              /\ environment_vars = <<>>
              /\ stdout = <<IF call.environment_file = MissingPath
                            THEN "Warning: Environment file 'missing.json' not found. Skipping environment variables."
                            ELSE "Warning: Could not parse environment file 'broken.json'. Skipping environment variables.">>
        /\ pc = "done" =>
              /\ files[OutputPath].exists
              /\ files[OutputPath].text = pretty_xml
              /\ \A l \in Lines(files[OutputPath].text) :
                    ~Contains(l, "Environment Variables")
              /\ golden # <<>> => files[OutputPath].text = golden[1]

DegradedEnvironmentLoadWitness ==
    /\ pc = "done"
    /\ DegradedEnvironment
    /\ golden # <<>>
    /\ "values" \in DOMAIN files[EnvironmentPath].data
    /\ EnabledEntries(files[EnvironmentPath].data.values) # <<>>
    /\ Len(files[OutputPath].text) > 1

\* C8: a conversion whose collection file is missing or is not JSON goes
\* from the load straight to the matching error, and no step of it creates
\* or changes a file: the output path keeps what it held, also when an
\* environment file was supplied.
FatalCollectionLoad ==
    [][/\ BadCollectionFile' =>
             /\ files' = files
             /\ pc' \in {"load_collection", "raised"}
       /\ (pc = "load_collection" /\ BadCollectionFile) =>
             /\ pc' = "raised"
             /\ raised' = IF call.postman_file = MissingPath
                          THEN "FileNotFoundError" ELSE "JSONDecodeError"
             /\ pretty_xml' = <<>>]_vars

FatalCollectionLoadWitness ==
    /\ pc = "raised"
    /\ BadCollectionFile
    /\ call.environment_file = EnvironmentPath
    /\ files[OutputPath].exists
    /\ Len(files[OutputPath].text) > 1

\* The arguments of the block named `name` in the thread group's hashTree,
\* as <<name, value>>; <<>> when there is no such block
BlockEntries(name) ==
    LET h == HashTree3(jmeter_test_plan)
        hits == Select(h, LAMBDA e : IsTag(e, "Arguments")
                                     /\ HasAttr(e, "testname", name))
        args == h.children[SetMin(hits)].children[1].children
    IN  IF hits = {} THEN <<>>
        ELSE [i \in 1..Len(args) |->
                 <<ChildText(args[i], "Argument.name"),
                   ChildText(args[i], "Argument.value")>>]

EnvironmentValues == Get(files[EnvironmentPath].data, "values", <<>>)

\* C9, as stated: the "Environment Variables" block holds exactly the entries
\* whose `enabled` is true or absent, in source order.
EnvironmentFilterStrict ==
    (pc = "done" /\ call.environment_file = EnvironmentPath) =>
        LET kept == SelectSeq(EnvironmentValues,
                        LAMBDA v : \/ "enabled" \notin DOMAIN v
                                   \/ v.enabled.t = "bool" /\ v.enabled.v)
        IN  [i \in 1..Len(BlockEntries("Environment Variables")) |->
                BlockEntries("Environment Variables")[i][1]]
              = [i \in 1..Len(kept) |-> <<Get(kept[i], "key", "")>>]

\* C9, amended: the "Environment Variables" block holds exactly the entries
\* that have both `key` and `value` and whose `enabled` is absent or a value
\* Python counts as true (true, a non-zero number, a non-empty string), in
\* source order, each with its key and the textual form of its value.
EnvironmentFilter ==
    (pc = "done" /\ call.environment_file = EnvironmentPath) =>
        LET kept == SelectSeq(EnvironmentValues,
                        LAMBDA v : /\ {"key", "value"} \subseteq DOMAIN v
                                   /\ \/ "enabled" \notin DOMAIN v
                                      \/ Truthy(v.enabled))
        IN  BlockEntries("Environment Variables")
              = [i \in 1..Len(kept) |-> << <<kept[i].key>>, <<PyStr(kept[i].value)>> >>]

EnvironmentFilterWitness ==
    /\ pc = "done"
    /\ call.environment_file = EnvironmentPath
    /\ files[EnvironmentPath].data = DefaultEnvironment
    /\ BlockEntries("Environment Variables")
         = << << <<"on">>, <<"1">> >>, << <<"plain">>, <<"3">> >> >>

\* Every variable block in the tree of e has at least one argument entry.
RECURSIVE NonEmptyBlocks(_)
NonEmptyBlocks(e) ==
    /\ (/\ IsTag(e, "Arguments")
        /\ e.attrib.testname \in {"Collection Variables", "Environment Variables",
                                  "URL Path Variables"})
          => e.children[1].children # <<>>
    /\ \A i \in 1..Len(e.children) : NonEmptyBlocks(e.children[i])

\* C10: no block named "Collection Variables", "Environment Variables" or
\* "URL Path Variables" of the document has zero argument entries.
NoEmptyVariableBlock == NonEmptyBlocks(jmeter_test_plan)

\* The entries of a sequence that have both key and value, as arguments of a
\* variable block: <<name attribute, name, value, metadata>>
BlockArguments(entries) ==
    LET kept == SelectSeq(entries, LAMBDA v : {"key", "value"} \subseteq DOMAIN v)
    IN  [i \in 1..Len(kept) |->
            <<kept[i].key, <<kept[i].key>>, <<PyStr(kept[i].value)>>, <<"=">> >>]

\* e is the Arguments container `name` that holds exactly the arguments of
\* the entries, each with exactly the three fields name, value and metadata.
IsBlockOf(e, name, entries) ==
    /\ IsTag(e, "Arguments")
    /\ HasAttr(e, "testname", name)
    /\ Len(e.children) = 1
    /\ IsArgumentsCollection(e.children[1])
    /\ LET args == e.children[1].children
       IN  /\ \A i \in 1..Len(args) :
                 /\ Len(args[i].children) = 3
                 /\ HasAttr(args[i], "elementType", "Argument")
           /\ [i \in 1..Len(args) |->
                  <<args[i].attrib.name,
                    ChildText(args[i], "Argument.name"),
                    ChildText(args[i], "Argument.value"),
                    ChildText(args[i], "Argument.metadata")>>]
                = BlockArguments(entries)

\* The parent is the old parent with one block and its closer appended.
AppendsBlock(old, new, name, entries) ==
    /\ Len(new.children) = Len(old.children) + 2
    /\ SubSeq(new.children, 1, Len(old.children)) = old.children
    /\ [new EXCEPT !.children = old.children] = old
    /\ IsBlockOf(new.children[Len(old.children) + 1], name, entries)
    /\ new.children[Len(old.children) + 2] = HashTree

\* C11: the step that adds the collection variables, or the environment
\* variables, for a non-empty entry sequence appends to the thread group's
\* hashTree exactly two children, one Arguments container of the given name
\* and its closer, and changes nothing else in the document; the container
\* holds one argument per entry that has both key and value, in input order,
\* with name = key, value = the textual form of the value, and metadata "=".
VariableBlockContents ==
    [][/\ (/\ pc = "collection_variables"
           /\ "variable" \in DOMAIN collection
           /\ collection.variable # <<>>) =>
             /\ AppendsBlock(HashTree3(jmeter_test_plan),
                             HashTree3(jmeter_test_plan'),
                             "Collection Variables", collection.variable)
             /\ WithHashTree3(jmeter_test_plan', HashTree3(jmeter_test_plan))
                  = jmeter_test_plan
       /\ (pc = "environment_variables" /\ environment_vars # <<>>) =>
             /\ AppendsBlock(HashTree3(jmeter_test_plan),
                             HashTree3(jmeter_test_plan'),
                             "Environment Variables", environment_vars)
             /\ WithHashTree3(jmeter_test_plan', HashTree3(jmeter_test_plan))
                  = jmeter_test_plan]_vars

VariableBlockContentsWitness ==
    /\ pc = "environment_variables"
    /\ "variable" \in DOMAIN collection
    /\ collection.variable = <<[key |-> "k"], KV("n", Num(2))>>
    /\ BlockEntries("Collection Variables") = << << <<"n">>, <<"2">> >> >>

\* The hashTree that follows the i-th sampler of the thread group's hashTree
SamplerScope(i) ==
    LET h == HashTree3(jmeter_test_plan)
        at == {k \in 1..Len(h.children) :
                 /\ IsTag(h.children[k], "HTTPSamplerProxy")
                 /\ Len(Tagged(SubSeq(h.children, 1, k), "HTTPSamplerProxy")) = i}
    IN  h.children[SetMin(at) + 1]

IsBare(request) ==
    /\ "body" \notin DOMAIN request
    /\ "header" \notin DOMAIN request
    /\ ~HasQueryString(request)
    /\ ~HasQuerySequence(request)

\* C12: in the finished document, the sampler of a request with no body, no
\* header and no query has exactly one HTTPsampler.Arguments container, with
\* zero arguments, has no HTTPSampler.postBodyRaw mark, and its hashTree
\* contains no HeaderManager.
BareRequestDefaults ==
    pc = "done" =>
        \A i \in 1..Len(Leaves) :
            IsBare(Leaves[i].request) =>
                /\ Len(ArgumentContainers(Samplers[i])) = 1
                /\ Arguments(ArgumentContainers(Samplers[i])[1]) = <<>>
                /\ ChildText(Samplers[i], "HTTPSampler.postBodyRaw") = <<>>
                /\ Tagged(Descendants(SamplerScope(i)), "HeaderManager") = <<>>

BareRequestDefaultsWitness ==
    /\ pc = "done"
    /\ \E i \in 1..Len(Leaves) :
          /\ IsBare(Leaves[i].request)
          /\ "url" \in DOMAIN Leaves[i].request
          /\ Len(ArgumentContainers(Samplers[i])) = 1
          /\ SamplerScope(i) = HashTree

IsRawBody(request) ==
    /\ "body" \in DOMAIN request
    /\ Get(request.body, "mode", "") = "raw"
    /\ Get(request.body, "raw", "") # ""

IsUrlencodedBody(request) ==
    /\ "body" \in DOMAIN request
    /\ Get(request.body, "mode", "") = "urlencoded"
    /\ Get(request.body, "urlencoded", <<>>) # <<>>

\* C13: in the finished document, the sampler of a request whose body has
\* mode raw and a non-empty payload carries HTTPSampler.postBodyRaw = true
\* and its argument container holds exactly one argument, unnamed, with the
\* payload as value and always_encode false; the sampler of any other
\* request carries no HTTPSampler.postBodyRaw.
RawBodyMapping ==
    pc = "done" =>
        \A i \in 1..Len(Leaves) :
            IF IsRawBody(Leaves[i].request)
            THEN /\ ChildText(Samplers[i], "HTTPSampler.postBodyRaw") = <<"true">>
                 /\ Arguments(ArgumentContainers(Samplers[i])[1])
                      = << <<"", <<Leaves[i].request.body.raw>>, <<"false">> >> >>
                 /\ ChildText(ArgumentContainers(Samplers[i])[1].children[1].children[1],
                              "Argument.name") = <<>>
            ELSE ChildText(Samplers[i], "HTTPSampler.postBodyRaw") = <<>>

\* The arguments of a container as <<name attribute, name, use_equals>>
ArgumentNames(container) ==
    LET args == container.children[1].children
    IN  [i \in 1..Len(args) |->
            <<args[i].attrib.name,
              ChildText(args[i], "Argument.name"),
              ChildText(args[i], "HTTPArgument.use_equals")>>]

\* C14: in the finished document, the argument container of a request whose
\* body has mode urlencoded with a non-empty entry sequence holds one
\* argument per entry, in input order, with name = key and value = value
\* (both "" when absent), always_encode false and use_equals true, before
\* any argument of a structured query; the sampler carries no
\* HTTPSampler.postBodyRaw.
UrlencodedBodyMapping ==
    pc = "done" =>
        \A i \in 1..Len(Leaves) :
            IsUrlencodedBody(Leaves[i].request) =>
                LET entries == Leaves[i].request.body.urlencoded
                    container == ArgumentContainers(Samplers[i])[1]
                    n == Len(entries)
                IN  /\ Len(Arguments(container)) >= n
                    /\ SubSeq(Arguments(container), 1, n)
                         = [k \in 1..n |->
                               <<Get(entries[k], "key", ""),
                                 <<Get(entries[k], "value", "")>>,
                                 <<"false">> >>]
                    /\ SubSeq(ArgumentNames(container), 1, n)
                         = [k \in 1..n |->
                               <<Get(entries[k], "key", ""),
                                 <<Get(entries[k], "key", "")>>,
                                 <<"true">> >>]
                    /\ Len(Arguments(container)) =
                         n + (IF HasQuerySequence(Leaves[i].request)
                              THEN Len(QueryEntryArguments(Leaves[i].request.url.v.query))
                              ELSE 0)
                    /\ ChildText(Samplers[i], "HTTPSampler.postBodyRaw") = <<>>

UrlencodedBodyMappingWitness ==
    /\ pc = "done"
    /\ Len(Leaves) = 1
    /\ IsUrlencodedBody(Leaves[1].request)
    /\ Leaves[1].request.body.urlencoded = <<[key |-> "q"], KV("p", "1")>>
    /\ Arguments(ArgumentContainers(Samplers[1])[1])
         = << <<"q", <<"">>, <<"false">> >>, <<"p", <<"1">>, <<"false">> >> >>

HasHeaders(request) == "header" \in DOMAIN request /\ request.header # <<>>

HasPathVariables(request) ==
    /\ "url" \in DOMAIN request
    /\ request.url.t = "dict"
    /\ Get(request.url.v, "variable", <<>>) # <<>>

\* The header entries of a HeaderManager as <<name, value>>
HeaderPairs(header_manager) ==
    LET entries == header_manager.children[1].children
    IN  [i \in 1..Len(entries) |->
            <<ChildText(entries[i], "Header.name"),
              ChildText(entries[i], "Header.value")>>]

\* C15: in the finished document, the hashTree of the sampler of a request
\* with a non-empty header sequence contains exactly one HeaderManager, as
\* its first child, with one entry per header in input order (a missing key
\* or value recorded as ""), and the next child is the closer; the hashTree
\* of a request without headers contains no HeaderManager and starts with no
\* closer; there is no HeaderManager outside the samplers' hashTrees.
HeaderMapping ==
    pc = "done" =>
        /\ \A i \in 1..Len(Leaves) :
              LET scope == SamplerScope(i)
                  request == Leaves[i].request
              IN  IF HasHeaders(request)
                  THEN /\ Len(Tagged(Descendants(scope), "HeaderManager")) = 1
                       /\ Len(scope.children) >= 2
                       /\ IsTag(scope.children[1], "HeaderManager")
                       /\ Len(scope.children[1].children) = 1
                       /\ HeaderPairs(scope.children[1])
                            = [k \in 1..Len(request.header) |->
                                  << <<Get(request.header[k], "key", "")>>,
                                     <<Get(request.header[k], "value", "")>> >>]
                       /\ scope.children[2] = HashTree
                  ELSE /\ Tagged(Descendants(scope), "HeaderManager") = <<>>
                       /\ Len(scope.children) =
                            (IF HasPathVariables(request) THEN 2 ELSE 0)
                       /\ scope.children # <<>> => IsTag(scope.children[1], "Arguments")
        /\ Len(Tagged(Descendants(jmeter_test_plan), "HeaderManager"))
             = Cardinality({i \in 1..Len(Leaves) : HasHeaders(Leaves[i].request)})

HeaderMappingWitness ==
    /\ pc = "done"
    /\ Len(Leaves) = 1
    /\ HasHeaders(Leaves[1].request)
    /\ Leaves[1].request.header = <<[value |-> "v"], [key |-> "k"]>>
    /\ HeaderPairs(SamplerScope(1).children[1])
         = << << <<"">>, <<"v">> >>, << <<"k">>, <<"">> >> >>

IsDictUrl(request) == "url" \in DOMAIN request /\ request.url.t = "dict"

\* C16: in the finished document, the sampler of a request with a structured
\* URL records domain = the host labels joined by "." ("localhost" without
\* host), path = "/" and the segments joined by "/" for a sequence (also for
\* an absent path) and the string itself for a string, protocol = the given
\* value without one trailing colon ("http" when absent), and port = the
\* textual form of port ("" when absent).
StructuredUrlMapping ==
    pc = "done" =>
        \A i \in 1..Len(Leaves) :
            IsDictUrl(Leaves[i].request) =>
                LET url == Leaves[i].request.url.v
                    sampler == Samplers[i]
                IN  /\ ChildText(sampler, "HTTPSampler.domain") =
                         <<IF "host" \in DOMAIN url THEN Join(".", url.host)
                           ELSE "localhost">>
                    /\ ChildText(sampler, "HTTPSampler.path") =
                         <<IF "path" \notin DOMAIN url THEN "/"
                           ELSE IF url.path.t = "list"
                           THEN "/" \o Join("/", url.path.v)
                           ELSE url.path.v>>
                    /\ ChildText(sampler, "HTTPSampler.protocol") =
                         <<IF "protocol" \notin DOMAIN url THEN "http"
                           ELSE IF EndsWith(url.protocol, ":")
                           THEN Slice(url.protocol, 1, Len(url.protocol) - 1)
                           ELSE url.protocol>>
                    /\ ChildText(sampler, "HTTPSampler.port") =
                         <<IF "port" \notin DOMAIN url THEN ""
                           ELSE IF url.port.t = "num" THEN ToString(url.port.v)
                           ELSE url.port.v>>

StructuredUrlMappingWitness ==
    /\ pc = "done"
    /\ Len(Leaves) = 1
    /\ IsDictUrl(Leaves[1].request)
    /\ Leaves[1].request.url.v = PlainUrl
    /\ ChildText(Samplers[1], "HTTPSampler.domain") = <<"example.com">>
    /\ ChildText(Samplers[1], "HTTPSampler.path") = <<"/api/users">>
    /\ ChildText(Samplers[1], "HTTPSampler.protocol") = <<"http">>
    /\ ChildText(Samplers[1], "HTTPSampler.port") = <<"8080">>

IsBlock(e, name) == IsTag(e, "Arguments") /\ HasAttr(e, "testname", name)

\* The positions, among the children of the thread group's hashTree, of the
\* blocks named `name`
BlockPositions(name) ==
    Select(HashTree3(jmeter_test_plan), LAMBDA c : IsBlock(c, name))

SamplerPositions ==
    Select(HashTree3(jmeter_test_plan), LAMBDA c : IsTag(c, "HTTPSamplerProxy"))

BlockCount(name) ==
    Len(SelectSeq(Descendants(jmeter_test_plan), LAMBDA e : IsBlock(e, name)))

\* C17: at every point of the construction, among the children of the thread
\* group's hashTree the "Collection Variables" block comes before the
\* "Environment Variables" block and both come before every sampler; each
\* occurs at most once there, and nowhere else in the document (not at the
\* test-plan level, not inside a sampler's hashTree).
EmissionOrder ==
    jmeter_test_plan # NoDocument =>
        LET cv == BlockPositions("Collection Variables")
            ev == BlockPositions("Environment Variables")
        IN  /\ Cardinality(cv) <= 1
            /\ Cardinality(ev) <= 1
            /\ \A c \in cv, e \in ev : c < e
            /\ \A b \in cv \cup ev, k \in SamplerPositions : b < k
            /\ BlockCount("Collection Variables") = Cardinality(cv)
            /\ BlockCount("Environment Variables") = Cardinality(ev)

EmissionOrderWitness ==
    /\ pc = "done"
    /\ BlockPositions("Collection Variables") = {1}
    /\ BlockPositions("Environment Variables") = {3}
    /\ 5 \in SamplerPositions
    /\ \E i \in 1..Len(Leaves) : HasPathVariables(Leaves[i].request)

\* C18: the step that visits an item with neither `item` nor `request`
\* leaves the document as it is, raises nothing and goes on with the items
\* after it; in the finished document the samplers are still the leaf
\* requests in order.
LeafWithoutRequest ==
    [][/\ (/\ pc = "walk"
           /\ pending # <<>>
           /\ "item" \notin DOMAIN Head(pending)
           /\ "request" \notin DOMAIN Head(pending)) =>
             /\ jmeter_test_plan' = jmeter_test_plan
             /\ pending' = Tail(pending)
             /\ pc' = "walk"
             /\ raised' = ""
       /\ pc' = "done" =>
             /\ TestNames(Samplers)' = ItemNames(Leaves)'
             /\ Len(HashTree3(jmeter_test_plan').children)
                  = 2 * (Len(Leaves') + Cardinality(BlockPositions("Collection Variables")')
                         + Cardinality(BlockPositions("Environment Variables")'))]_vars

LeafWithoutRequestWitness ==
    /\ pc = "done"
    /\ Items = <<Bare("x0"), Leaf("a0")>>
    /\ TestNames(Samplers) = <<"a0">>
    /\ Len(HashTree3(jmeter_test_plan).children) = 2

\* C19: in the finished document, the hashTree of the sampler of a request
\* whose url is a structured object with a non-empty `variable` sequence
\* holds, after the HeaderManager and its closer when the request has
\* headers and otherwise first, the "URL Path Variables" block of those
\* entries followed by its closer, and nothing more; the hashTree of any
\* other request holds no such block, and the document holds none outside
\* these hashTrees.
PathVariableBlock ==
    pc = "done" =>
        /\ \A i \in 1..Len(Leaves) :
              LET scope == SamplerScope(i)
                  request == Leaves[i].request
                  before == IF HasHeaders(request) THEN 2 ELSE 0
              IN  IF HasPathVariables(request)
                  THEN /\ Len(scope.children) = before + 2
                       /\ IsBlockOf(scope.children[before + 1], "URL Path Variables",
                                    request.url.v.variable)
                       /\ scope.children[before + 2] = HashTree
                       /\ before = 2 => /\ IsTag(scope.children[1], "HeaderManager")
                                        /\ scope.children[2] = HashTree
                  ELSE /\ Len(scope.children) = before
                       /\ SelectSeq(Descendants(scope),
                                    LAMBDA e : IsBlock(e, "URL Path Variables")) = <<>>
        /\ BlockCount("URL Path Variables")
             = Cardinality({i \in 1..Len(Leaves) : HasPathVariables(Leaves[i].request)})

PathVariableBlockWitness ==
    /\ pc = "done"
    /\ Len(Leaves) = 1
    /\ HasHeaders(Leaves[1].request)
    /\ HasPathVariables(Leaves[1].request)
    /\ Len(SamplerScope(1).children) = 4
    /\ IsBlock(SamplerScope(1).children[3], "URL Path Variables")

Building == pc \in {"build_root", "collection_variables",
                    "environment_variables", "walk"}

\* C20: over any number of conversions, the files change only in the one
\* step of a conversion that writes the output, and only at the output
\* path; that step comes when the collection is loaded, the environment
\* load is over and every item has been visited, and it writes the text of
\* the finished document; the document changes only in the building steps
\* before it (a new conversion starts a new document); a step that ends a
\* conversion with an error changes no file.
WriteOnce ==
    [][/\ files' # files =>
             /\ pc = "write" /\ pc' = "done"
             /\ \A p \in Paths \ {call.output_file} : files'[p] = files[p]
       /\ pc = "write" =>
             /\ pc' = "done"
             /\ collection = files[call.postman_file].data
             /\ pending = <<>>
             /\ TestNames(Samplers) = ItemNames(Leaves)
             /\ (BlockPositions("Environment Variables") # {})
                   = (environment_vars # <<>>)
             /\ files'[call.output_file] = TextFile(toprettyxml(jmeter_test_plan))
       /\ pc' = "write" => pc = "walk" /\ pending = <<>>
       /\ jmeter_test_plan' # jmeter_test_plan =>
             \/ Building
             \/ pc' = "load_collection" /\ jmeter_test_plan' = NoDocument
       /\ pc' = "raised" => files' = files]_vars

WriteOnceWitness ==
    /\ pc = "done"
    /\ calls = MaxCalls
    /\ golden # <<>>
    /\ files[OutputPath].text = pretty_xml
    /\ pretty_xml # golden[1]
    /\ Len(Samplers) >= 2

====
